---- MODULE Spec2Model ----
(***************************************************************************)
(* Model of AGI_Nexus (src/nexus_agi.py): a weighted directed knowledge    *)
(* graph, the pattern scorer find_deep_patterns and the thinking cycle     *)
(* live_and_learn with its accepted-principles record and hypothesis log.  *)
(*                                                                         *)
(* Numbers.  Edge weights are Python floats with one decimal; the model    *)
(* keeps them as integers counted in tenths (0.8 is 8) and a confidence    *)
(* score / in_degree as a reduced fraction <<num, den>> of its true value  *)
(* (0.8 is <<4, 5>>).  Arithmetic in the model is exact.  For the weights  *)
(* the model draws (Weights, and the seed graph) the IEEE-754 evaluation   *)
(* of the code takes the same branch at "total_weight > 0" and at          *)
(* "confidence > 0.7" as the exact one.                                    *)
(***************************************************************************)
EXTENDS Integers, Sequences, FiniteSets, TLC

VARIABLES knowledge_graph,       \* self.knowledge_graph
          derived_principles,    \* self.derived_principles : node -> confidence
          generated_hypotheses,  \* self.generated_hypotheses
          cycle_count,           \* self.cycle_count
          cycle,                 \* locals and outcome of the latest live_and_learn
          returned               \* values returned by direct find_deep_patterns calls

vars == <<knowledge_graph, derived_principles, generated_hypotheses,
          cycle_count, cycle, returned>>

----------------------------------------------------------------------------
(* Bounds of the model *)
MaxNodes == 3
MaxEdges == 2
MaxCycles == 2
MaxCalls == 2

(* Python's None *)
NoneVal == "None"

(* Edge weights drawn for the generic graphs, in tenths *)
Weights == {-7, 0, 7, 8, 10}

----------------------------------------------------------------------------
(* The graph: nodes in insertion order, node attributes, weighted edges *)

Node(t, d) == [type |-> t, domain |-> d]

SeedNodes ==
    <<"Golden Ratio", "DNA Structure", "Fibonacci Sequence",
      "Musical Harmony", "Perfect Fifth (Ratio 3:2)">>

SeedAttrs ==
    ("Golden Ratio" :> Node("Constant", "Geometry")) @@
    ("DNA Structure" :> Node("Structure", "Biology")) @@
    ("Fibonacci Sequence" :> Node("Sequence", "Mathematics")) @@
    ("Musical Harmony" :> Node("Principle", "Music")) @@
    ("Perfect Fifth (Ratio 3:2)" :> Node("Constant", "Music"))

SeedEdges ==
    (<<"DNA Structure", "Golden Ratio">> :> 8) @@
    (<<"Fibonacci Sequence", "Golden Ratio">> :> 10) @@
    (<<"Perfect Fifth (Ratio 3:2)", "Musical Harmony">> :> 10) @@
    (<<"Musical Harmony", "Golden Ratio">> :> 6)

seed_knowledge == [nodes |-> SeedNodes, attrs |-> SeedAttrs, edges |-> SeedEdges]

NodeSet(G) == {G.nodes[i] : i \in DOMAIN G.nodes}

in_edges(G, node) == {e \in DOMAIN G.edges : e[2] = node}

in_degree(G, node) == Cardinality(in_edges(G, node))

RECURSIVE SumWeights(_, _)
SumWeights(G, E) ==
    IF E = {} THEN 0
    ELSE LET e == CHOOSE x \in E : TRUE
         IN  G.edges[e] + SumWeights(G, E \ {e})

total_weight(G, node) == SumWeights(G, in_edges(G, node))

\* variant: only a missing attribute counts as untyped
HasType_not_none(G, node) == G.attrs[node].type # NoneVal

HasType(G, node) == G.attrs[node].type \notin {NoneVal, ""}

----------------------------------------------------------------------------
(* find_deep_patterns *)

\* variant: total_weight >= 0
Qualifies_nonneg(G, node) == HasType(G, node) /\ total_weight(G, node) >= 0

Qualifies(G, node) == HasType(G, node) /\ total_weight(G, node) > 0

RECURSIVE confluence_points(_, _)
confluence_points(G, k) ==
    IF k = 0 THEN <<>>
    ELSE LET node == G.nodes[k]
             rest == confluence_points(G, k - 1)
         IN  IF Qualifies(G, node)
             THEN Append(rest, <<node, total_weight(G, node)>>)
             ELSE rest

\* variant: an item goes in front of the items of equal score
RECURSIVE InsertDesc_unstable(_, _)
InsertDesc_unstable(item, s) ==
    IF s = <<>> THEN <<item>>
    ELSE IF Head(s)[2] > item[2]
         THEN <<Head(s)>> \o InsertDesc_unstable(item, Tail(s))
         ELSE <<item>> \o s

RECURSIVE InsertDesc(_, _)
InsertDesc(item, s) ==
    IF s = <<>> THEN <<item>>
    ELSE IF Head(s)[2] >= item[2]
         THEN <<Head(s)>> \o InsertDesc(item, Tail(s))
         ELSE <<item>> \o s

RECURSIVE sorted(_)
sorted(items) ==
    IF items = <<>> THEN <<>>
    ELSE InsertDesc(items[Len(items)], sorted(SubSeq(items, 1, Len(items) - 1)))

\* variant: leaves out the concepts already accepted
find_deep_patterns_unconfirmed(G) ==
    SelectSeq(sorted(confluence_points(G, Len(G.nodes))),
              LAMBDA item : item[1] \notin DOMAIN derived_principles)

find_deep_patterns(G) == sorted(confluence_points(G, Len(G.nodes)))

----------------------------------------------------------------------------
(* Confidence as an exact fraction *)

RECURSIVE GCD(_, _)
GCD(a, b) == IF b = 0 THEN a ELSE GCD(b, a % b)

\* variant: floor division, score // in_degree
Confidence_floor(score, degree) == <<score \div (10 * degree), 1>>

\* score is in tenths: the value is score / (10 * degree)
Confidence(score, degree) ==
    LET g == GCD(score, 10 * degree)
    IN  <<score \div g, (10 * degree) \div g>>

\* variant: confidence >= 0.7
AboveThreshold_inclusive(confidence) == confidence[1] * 10 >= 7 * confidence[2]

\* confidence > 0.7
AboveThreshold(confidence) == confidence[1] * 10 > 7 * confidence[2]

----------------------------------------------------------------------------
(* generate_verifiable_hypotheses *)

connected_domains(G, principle) ==
    {G.attrs[e[1]].domain : e \in in_edges(G, principle)} \ {NoneVal}

generate_verifiable_hypotheses(G, hypotheses, principle) ==
    Append(hypotheses,
           [principle |-> principle, domains |-> connected_domains(G, principle)])

----------------------------------------------------------------------------
(* live_and_learn, one branch per way the cycle ends *)

Result(dp, gh, outcome, patterns, concept, degree, confidence) ==
    [derived_principles |-> dp, generated_hypotheses |-> gh,
     locals |-> [outcome |-> outcome, patterns |-> patterns,
                 most_promising_concept |-> concept,
                 divided_by |-> degree, confidence |-> confidence]]

Accept(G, dp, gh, patterns, concept, degree, confidence) ==
    Result((concept :> confidence) @@ dp,
           generate_verifiable_hypotheses(G, gh, concept),
           "ACCEPTED", patterns, concept, <<degree>>, <<confidence>>)

\* variant: no emptiness guard, patterns[0] raises
NoPatterns_unguarded(dp, gh, patterns) ==
    Result(dp, gh, "IndexError", patterns, NoneVal, <<>>, <<>>)

NoPatterns(dp, gh, patterns) ==
    Result(dp, gh, "AWAITING_DATA", patterns, NoneVal, <<>>, <<>>)

\* variant: formulates the hypothesis again
AlreadyConfirmed_again(dp, gh, patterns, concept) ==
    Result(dp, generate_verifiable_hypotheses(knowledge_graph, gh, concept),
           "ALREADY_CONFIRMED", patterns, concept, <<>>, <<>>)

\* variant: moves on to the next candidate of the ranking
AlreadyConfirmed_next(dp, gh, patterns, concept) ==
    IF Len(patterns) >= 2 /\ patterns[2][1] \notin DOMAIN dp
    THEN LET degree == in_degree(knowledge_graph, patterns[2][1])
         IN  Accept(knowledge_graph, dp, gh, patterns, patterns[2][1], degree,
                    Confidence(patterns[2][2], degree))
    ELSE Result(dp, gh, "ALREADY_CONFIRMED", patterns, concept, <<>>, <<>>)

AlreadyConfirmed(dp, gh, patterns, concept) ==
    Result(dp, gh, "ALREADY_CONFIRMED", patterns, concept, <<>>, <<>>)

DivisionFault(dp, gh, patterns, concept) ==
    Result(dp, gh, "ZeroDivisionError", patterns, concept, <<0>>, <<>>)

\* variant: records the principle whatever the confidence
Reject_records(dp, gh, patterns, concept, degree, confidence) ==
    Result((concept :> confidence) @@ dp, gh,
           "BELOW_THRESHOLD", patterns, concept, <<degree>>, <<confidence>>)

Reject(dp, gh, patterns, concept, degree, confidence) ==
    Result(dp, gh, "BELOW_THRESHOLD", patterns, concept, <<degree>>, <<confidence>>)

live_and_learn(G, dp, gh) ==
    LET patterns == find_deep_patterns(G)
    IN  IF patterns = <<>> THEN NoPatterns(dp, gh, patterns)
        ELSE
          LET most_promising_concept == patterns[1][1]
              score == patterns[1][2]
          IN  IF most_promising_concept \in DOMAIN dp
              THEN AlreadyConfirmed(dp, gh, patterns, most_promising_concept)
              ELSE
                LET degree == in_degree(G, most_promising_concept)
                IN  IF degree = 0
                    THEN DivisionFault(dp, gh, patterns, most_promising_concept)
                    ELSE
                      LET confidence == Confidence(score, degree)
                      IN  IF AboveThreshold(confidence)
                          THEN Accept(G, dp, gh, patterns,
                                      most_promising_concept, degree, confidence)
                          ELSE Reject(dp, gh, patterns,
                                      most_promising_concept, degree, confidence)

----------------------------------------------------------------------------
(* Initial states: the seeded object, or the same object over a graph      *)
(* drawn from the bounded family                                           *)

NodeName(i) == "n" \o ToString(i)

\* as in the seed graph, an edge runs from a node to one inserted before it
Pairs(k) == UNION {{<<NodeName(i), NodeName(j)>> : j \in 1..(i - 1)} : i \in 1..k}

\* a node has a type tag and a domain, or neither: the falsy 'type' is a
\* missing attribute (None) on odd positions, the empty string on even ones
GenericNode(i, typed) ==
    IF i \in typed THEN Node("Constant", "Science")
    ELSE Node(IF i % 2 = 1 THEN NoneVal ELSE "", NoneVal)

GenericAttrs(k) ==
    {[n \in {NodeName(i) : i \in 1..k} |->
         GenericNode(CHOOSE i \in 1..k : NodeName(i) = n, typed)] : typed \in SUBSET (1..k)}

NoCycle ==
    [outcome |-> "IDLE", patterns |-> <<>>, most_promising_concept |-> NoneVal,
     divided_by |-> <<>>, confidence |-> <<>>]

InitObject ==
    /\ derived_principles = <<>>
    /\ generated_hypotheses = <<>>
    /\ cycle_count = 0
    /\ cycle = NoCycle
    /\ returned = <<>>

InitSeed == knowledge_graph = seed_knowledge /\ InitObject

InitGeneric ==
    /\ \E k \in 0..MaxNodes :
         \E E \in {X \in SUBSET Pairs(k) : Cardinality(X) <= MaxEdges} :
           \E w \in [E -> Weights] :
             \E a \in GenericAttrs(k) :
               knowledge_graph = [nodes |-> [i \in 1..k |-> NodeName(i)],
                                  attrs |-> a, edges |-> w]
    /\ InitObject

Init == InitSeed \/ InitGeneric

----------------------------------------------------------------------------
(* Actions *)

LiveAndLearn ==
    /\ cycle_count < MaxCycles
    /\ cycle_count' = cycle_count + 1
    /\ LET r == live_and_learn(knowledge_graph, derived_principles, generated_hypotheses)
       IN  /\ derived_principles' = r.derived_principles
           /\ generated_hypotheses' = r.generated_hypotheses
           /\ cycle' = r.locals
    /\ UNCHANGED <<knowledge_graph, returned>>

FindDeepPatterns ==
    /\ Len(returned) < MaxCalls
    /\ returned' = Append(returned, find_deep_patterns(knowledge_graph))
    /\ UNCHANGED <<knowledge_graph, derived_principles, generated_hypotheses,
                   cycle_count, cycle>>

Next == LiveAndLearn \/ FindDeepPatterns

Spec == Init /\ [][Next]_vars

----------------------------------------------------------------------------
(* Properties *)

Last(s) == s[Len(s)]

Position(G, node) == CHOOSE i \in DOMAIN G.nodes : G.nodes[i] = node

\* the sum of the weights of the in-edges of node, written out on the edge set
RECURSIVE InWeight(_, _, _)
InWeight(edges, S, node) ==
    IF S = {} THEN 0
    ELSE LET e == CHOOSE x \in S : TRUE
         IN  (IF e[2] = node THEN edges[e] ELSE 0) + InWeight(edges, S \ {e}, node)

InSum(G, node) == InWeight(G.edges, DOMAIN G.edges, node)

InDeg(G, node) == Cardinality({e \in DOMAIN G.edges : e[2] = node})

Tagged(G, node) == G.attrs[node].type # NoneVal /\ G.attrs[node].type # ""

TopRanked == find_deep_patterns(knowledge_graph)[1]

HasCandidate == find_deep_patterns(knowledge_graph) # <<>>

\* C1: on the seed graph the first cycle ranks 'Golden Ratio' first with
\* score 2.4 and in-degree 3, computes confidence 0.8 > 0.7, ends in ACCEPTED
\* and records 'Golden Ratio' in derived_principles.
C1_SeedFirstCycleAccepted ==
    (knowledge_graph = seed_knowledge /\ cycle_count = 1) =>
        /\ cycle.patterns # <<>>
        /\ cycle.patterns[1] = <<"Golden Ratio", 24>>
        /\ cycle.most_promising_concept = "Golden Ratio"
        /\ cycle.divided_by = <<3>>
        /\ cycle.confidence = << <<4, 5>> >>
        /\ 4 * 10 > 7 * 5
        /\ cycle.outcome = "ACCEPTED"
        /\ "Golden Ratio" \in DOMAIN derived_principles
        /\ derived_principles["Golden Ratio"] = <<4, 5>>

C1_Witness ==
    /\ knowledge_graph = seed_knowledge
    /\ cycle_count = 1
    /\ cycle.outcome = "ACCEPTED"

\* C2: a cycle started when the top-ranked candidate is already a key of
\* derived_principles ends in ALREADY_CONFIRMED, appends no hypothesis and
\* leaves derived_principles (keys and stored confidences) unchanged.
C2_AlreadyConfirmedIsNoOp ==
    [][(LiveAndLearn /\ HasCandidate /\ TopRanked[1] \in DOMAIN derived_principles)
         => /\ cycle'.outcome = "ALREADY_CONFIRMED"
            /\ generated_hypotheses' = generated_hypotheses
            /\ derived_principles' = derived_principles]_vars

C2_Witness ==
    /\ cycle.outcome = "ALREADY_CONFIRMED"
    /\ cycle.most_promising_concept \in DOMAIN derived_principles
    /\ Len(generated_hypotheses) = 1

\* C3: a cycle whose top candidate is not yet accepted ends in ACCEPTED iff
\* score / in_degree > 0.7 strictly; on ACCEPTED it records
\* derived_principles[top] = score / in_degree and appends exactly one
\* hypothesis.
C3_AcceptedIffAboveThreshold ==
    [][(LiveAndLearn /\ HasCandidate /\ TopRanked[1] \notin DOMAIN derived_principles)
         => LET top == TopRanked[1]
                score == TopRanked[2]
                degree == InDeg(knowledge_graph, top)
            IN  /\ cycle'.outcome = "ACCEPTED" <=> (degree > 0 /\ score > 7 * degree)
                /\ cycle'.outcome = "ACCEPTED" =>
                     /\ DOMAIN derived_principles' = DOMAIN derived_principles \cup {top}
                     /\ \A p \in DOMAIN derived_principles :
                            derived_principles'[p] = derived_principles[p]
                     /\ derived_principles'[top][2] > 0
                     /\ derived_principles'[top][1] * 10 * degree
                            = score * derived_principles'[top][2]
                     /\ Len(generated_hypotheses') = Len(generated_hypotheses) + 1
                     /\ SubSeq(generated_hypotheses', 1, Len(generated_hypotheses))
                            = generated_hypotheses
                     /\ Last(generated_hypotheses').principle = top]_vars

C3_Witness ==
    /\ cycle.outcome = "ACCEPTED"
    /\ cycle.most_promising_concept \in DOMAIN derived_principles
    /\ Len(generated_hypotheses) = 1
    /\ knowledge_graph # seed_knowledge

\* C4 as stated: a cycle that ends in BELOW_THRESHOLD changes none of
\* derived_principles, generated_hypotheses, cycle_count and the graph.
C4_BelowThresholdNoMutation ==
    [][(LiveAndLearn /\ cycle'.outcome = "BELOW_THRESHOLD")
         => UNCHANGED <<derived_principles, generated_hypotheses,
                        cycle_count, knowledge_graph>>]_vars

\* C4 amended: a cycle that ends in BELOW_THRESHOLD leaves derived_principles,
\* generated_hypotheses and the graph unchanged; cycle_count grows by one.
C4_BelowThresholdOnlyCounts ==
    [][(LiveAndLearn /\ cycle'.outcome = "BELOW_THRESHOLD")
         => /\ UNCHANGED <<derived_principles, generated_hypotheses, knowledge_graph>>
            /\ cycle_count' = cycle_count + 1]_vars

C4_Witness ==
    /\ cycle.outcome = "BELOW_THRESHOLD"
    /\ cycle_count > 0
    /\ derived_principles = <<>>
    /\ generated_hypotheses = <<>>

\* C5: when find_deep_patterns returns the empty list the cycle ends in
\* AWAITING_DATA: no error, no confidence computed, derived_principles and
\* generated_hypotheses unchanged.
C5_NoPatternsAwaitsData ==
    [][(LiveAndLearn /\ ~HasCandidate)
         => /\ cycle'.outcome = "AWAITING_DATA"
            /\ cycle'.divided_by = <<>>
            /\ cycle'.confidence = <<>>
            /\ UNCHANGED <<derived_principles, generated_hypotheses>>]_vars

C5_Witness ==
    /\ cycle.outcome = "AWAITING_DATA"
    /\ cycle.patterns = <<>>
    /\ knowledge_graph.nodes # <<>>

\* C6: no cycle evaluates score / in_degree with in-degree 0, whatever the
\* graph: no division fault.
C6_NeverDividesByZero ==
    /\ cycle.outcome # "ZeroDivisionError"
    /\ \A i \in DOMAIN cycle.divided_by : cycle.divided_by[i] > 0

C6_Witness ==
    /\ cycle.divided_by # <<>>
    /\ \E n \in NodeSet(knowledge_graph) :
          Tagged(knowledge_graph, n) /\ InDeg(knowledge_graph, n) = 0
    /\ \E e \in DOMAIN knowledge_graph.edges : knowledge_graph.edges[e] <= 0

\* C7: find_deep_patterns returns exactly one pair (node, score) for each
\* node with a non-empty type tag and a strictly positive in-weight sum,
\* score being that sum, and nothing else.
ExactlyTheQualifying(G, r) ==
    /\ \A i \in DOMAIN r :
          /\ r[i][1] \in NodeSet(G)
          /\ Tagged(G, r[i][1])
          /\ r[i][2] = InSum(G, r[i][1])
          /\ r[i][2] > 0
    /\ \A n \in NodeSet(G) :
          (Tagged(G, n) /\ InSum(G, n) > 0)
              => Cardinality({i \in DOMAIN r : r[i][1] = n}) = 1
    /\ \A i, j \in DOMAIN r : r[i][1] = r[j][1] => i = j

C7_ReturnsExactlyQualifyingNodes ==
    \A c \in DOMAIN returned : ExactlyTheQualifying(knowledge_graph, returned[c])

C7_Witness ==
    /\ returned # <<>>
    /\ Last(returned) # <<>>
    /\ \E n \in NodeSet(knowledge_graph) :
          /\ Tagged(knowledge_graph, n)
          /\ InDeg(knowledge_graph, n) = 0
    /\ \E n \in NodeSet(knowledge_graph) :
          /\ ~Tagged(knowledge_graph, n)
          /\ InSum(knowledge_graph, n) > 0

StableDescending(G, r) ==
    \A i, j \in DOMAIN r :
        i < j => /\ r[i][2] >= r[j][2]
                 /\ r[i][2] = r[j][2] => Position(G, r[i][1]) < Position(G, r[j][1])

C9_SortedDescendingStable ==
    /\ \A c \in DOMAIN returned : StableDescending(knowledge_graph, returned[c])
    /\ StableDescending(knowledge_graph, cycle.patterns)
    /\ cycle.patterns # <<>> => cycle.most_promising_concept = cycle.patterns[1][1]

C9_Witness ==
    /\ returned # <<>>
    /\ Len(Last(returned)) >= 2
    /\ Last(returned)[1][2] = Last(returned)[2][2]
    /\ cycle.outcome # "IDLE"

\* C10: over any number of cycles on an unchanged graph derived_principles
\* holds at most one principle, which is the top-ranked candidate, with a
\* stored confidence > 0.7; generated_hypotheses has as many entries as
\* derived_principles; once a principle is accepted every later cycle ends in
\* ALREADY_CONFIRMED.
C10_OnlyTopCandidateEverAccepted ==
    /\ [](/\ Cardinality(DOMAIN derived_principles) <= 1
          /\ Len(generated_hypotheses) = Cardinality(DOMAIN derived_principles)
          /\ \A p \in DOMAIN derived_principles :
                /\ derived_principles[p][1] * 10 > 7 * derived_principles[p][2]
                /\ HasCandidate
                /\ p = TopRanked[1]
          /\ knowledge_graph = seed_knowledge
                => "Musical Harmony" \notin DOMAIN derived_principles)
    /\ [][(LiveAndLearn /\ derived_principles # <<>>)
            => (cycle'.outcome = "ALREADY_CONFIRMED" /\ UNCHANGED derived_principles)]_vars

C10_Witness ==
    /\ knowledge_graph = seed_knowledge
    /\ cycle_count >= 2
    /\ cycle.outcome = "ALREADY_CONFIRMED"
    /\ DOMAIN derived_principles = {"Golden Ratio"}

====
